---------------------------- MODULE Spec2Model ----------------------------
(***************************************************************************)
(* Hydrogen front end: the lexer (src/hash/lexer.rs) and the recursive     *)
(* descent parser (src/hash/parser.rs), as state machines.                 *)
(*                                                                         *)
(* A character is a one-character string; a character outside ASCII is     *)
(* written by its code point ("<U+4E2D>"), and Utf8Len gives the number of *)
(* bytes of its UTF-8 encoding.  A source text is a sequence of            *)
(* characters.                                                             *)
(***************************************************************************)
EXTENDS Integers, Sequences, FiniteSets

VARIABLES
    program,         \* the source text handed to Lexer::new / Parser::new
    overflowChecks,  \* the build's overflow-checks setting ("on": a usize
                     \* subtraction below zero panics; "off": it wraps),
                     \* "unknown" until a subtraction first goes below zero
    lexer,           \* Lexer { source, position }
    token,           \* the token the last lex() returned (Nil before any)
    peeked,          \* the token the last peek() returned since the last lex()
    stack,           \* the parser's call stack: one frame per active parse_* call
    ret,             \* the Result the callee that just returned hands its caller
    outcome,         \* "new" before the lexer or parser is built, "running",
                     \* "ok" or "err" when parse() has returned, "panic"
    opt,             \* main's Opt { mode, run } (Nil before Opt::parse())
    files,           \* the file system main runs on: path -> content
    started,         \* what main() went on to do (Nil before it)
    edit_mode,       \* repl's CursorMode (Nil before repl is called)
    line,            \* repl's LineBuffer { buffer, caret }
    raw_mode,        \* whether the terminal is in raw mode
    event,           \* the Event the last read() returned (Nil before any)
    evaluated,       \* the buffers repl has handed to the evaluator, in order
    repl_at          \* where repl is: "new" before the call, "read" waiting
                     \* in read(), "returned" after Ok(()), "failed" after Err

replVars == <<edit_mode, line, raw_mode, event, evaluated, repl_at>>

vars ==
    <<program, overflowChecks, lexer, token, peeked, stack, ret, outcome, opt, files,
      started, edit_mode, line, raw_mode, event, evaluated, repl_at>>

Nil == [kind |-> "Nil"]

\* Body applied to the value of v, which is evaluated once.
Bind(v, Body(_)) == CHOOSE r \in {Body(b) : b \in {v}} : TRUE

(***************************************************************************)
(* Characters                                                              *)
(***************************************************************************)
NUL == "<NUL>"           \* char::default(), what unwrap_or_default yields
CJK == "<U+4E2D>"        \* an alphabetic character of three UTF-8 bytes
EACUTE == "<U+00E9>"     \* an alphabetic character of two UTF-8 bytes
ARABIC3 == "<U+0663>"    \* a numeric (not alphabetic) character of two bytes

AsciiLetters ==
    {"a","b","c","d","e","f","g","h","i","j","k","l","m","n","o","p","q","r",
     "s","t","u","v","w","x","y","z","H","W"}

AsciiDigits == {"0","1","2","3","4","5","6","7","8","9"}

IsWhitespace(c) == c \in {" ", "\n", "\t"}
IsAlphabetic(c) == c \in AsciiLetters \cup {CJK, EACUTE}
IsNumeric(c) == c \in AsciiDigits \cup {ARABIC3}
IsAlphanumeric(c) == IsAlphabetic(c) \/ IsNumeric(c)

Utf8Len(c) ==
    CASE c = CJK -> 3
      [] c \in {EACUTE, ARABIC3} -> 2
      [] OTHER -> 1

\* String::len(): the length in bytes of the collected buffer.
RECURSIVE ByteLen(_)
ByteLen(buffer) ==
    IF buffer = <<>> THEN 0 ELSE Utf8Len(Head(buffer)) + ByteLen(Tail(buffer))

\* The String a buffer of pushed characters holds.
RECURSIVE Str(_)
Str(buffer) ==
    IF buffer = <<>> THEN "" ELSE Head(buffer) \o Str(Tail(buffer))

(***************************************************************************)
(* Tokens (src/hash/tokens.rs)                                             *)
(***************************************************************************)
Position(col, row) == [col |-> col, row |-> row]

\* A Token variant with its Position and, for the variants that carry one,
\* its String.
Token(kind, position, text) == [kind |-> kind, position |-> position, text |-> text]

Tok(kind, position) == Token(kind, position, "")

(***************************************************************************)
(* Lexer (src/hash/lexer.rs)                                               *)
(***************************************************************************)
LexerNew(source) == [source |-> source, position |-> Position(1, 1)]

\* next_char: the character consumed (char::default() at the end of the
\* input), the position before it, and the lexer after it.
NextChar(lx) ==
    Bind(lx, LAMBDA l :
        LET current == IF l.source = <<>> THEN NUL ELSE Head(l.source)
            rest == IF l.source = <<>> THEN <<>> ELSE Tail(l.source)
            pos == IF current = "\n"
                   THEN Position(1, l.position.row + 1)
                   ELSE Position(l.position.col + 1, l.position.row)
        IN [position |-> l.position, current |-> current,
            lexer |-> [source |-> rest, position |-> pos]])

\* The result of lex(): the token, the lexer after the call, and whether a
\* usize subtraction went below zero on the way.
LexResult(tok, lx, underflow) == [token |-> tok, lexer |-> lx, underflow |-> underflow]

\* The loop of consume_whitespace.
RECURSIVE ConsumeWhitespaceLoop(_)
ConsumeWhitespaceLoop(lx) ==
    Bind(lx, LAMBDA l :
        IF l.source = <<>> \/ ~IsWhitespace(Head(l.source))
        THEN l
        ELSE ConsumeWhitespaceLoop(NextChar(l).lexer))

\* The loop of consume_comment.
RECURSIVE ConsumeCommentLoop(_)
ConsumeCommentLoop(lx) ==
    Bind(lx, LAMBDA l :
        IF l.source = <<>> \/ Head(l.source) = "\n"
        THEN l
        ELSE ConsumeCommentLoop(NextChar(l).lexer))

\* The loop of consume_multiline_comment.
RECURSIVE ConsumeMultilineLoop(_)
ConsumeMultilineLoop(lx) ==
    Bind(lx, LAMBDA l :
        IF l.source = <<>>
        THEN l
        ELSE IF Head(l.source) = "*"
             THEN Bind(NextChar(l).lexer, LAMBDA l1 :
                      IF l1.source # <<>> /\ Head(l1.source) = "/"
                      THEN NextChar(l1).lexer
                      ELSE ConsumeMultilineLoop(NextChar(l1).lexer))
             ELSE ConsumeMultilineLoop(NextChar(l).lexer))

\* The conditions collect is called with.
Condition(class, c) ==
    CASE class = "alphanumeric" -> IsAlphanumeric(c)
      [] class = "numeric" -> IsNumeric(c)
      [] class = "not_quote" -> c # "\""

\* collect: the buffer of characters pushed, and the lexer after them.
RECURSIVE Collect(_, _, _)
Collect(lx, class, buffer) ==
    Bind(lx, LAMBDA l :
        IF l.source # <<>> /\ Condition(class, Head(l.source))
        THEN Collect(NextChar(l).lexer, class, Append(buffer, NextChar(l).current))
        ELSE [buffer |-> buffer, lexer |-> l])

\* current.col -= buffer.len() on usize.  The difference is kept as an
\* integer: a negative value d stands for the wrapped value 2^64 + d.
StartCol(col, buffer) == col - ByteLen(buffer)

KeywordKind(text) ==
    CASE text \in {"if", "else", "while", "break", "continue"} -> "Keyword"
      [] text = "in" -> "In"
      [] text = "as" -> "As"
      [] text \in {"num", "str", "bool"} -> "Type"
      [] text \in {"true", "false"} -> "Boolean"
      [] OTHER -> "Identifier"

CollectId(lx) ==
    Bind(Collect(lx, "alphanumeric", <<>>), LAMBDA got :
        LET col == StartCol(got.lexer.position.col, got.buffer)
            current == Position(col, got.lexer.position.row)
            text == Str(got.buffer)
            kind == KeywordKind(text)
        IN LexResult(IF kind \in {"In", "As"} THEN Tok(kind, current)
                     ELSE Token(kind, current, text),
                     got.lexer, col < 0))

CollectNumber(lx) ==
    Bind(Collect(lx, "numeric", <<>>), LAMBDA got :
        LET col == StartCol(got.lexer.position.col, got.buffer)
            current == Position(col, got.lexer.position.row)
        IN LexResult(Token("Number", current, Str(got.buffer)), got.lexer, col < 0))

CollectString(lx) ==
    Bind(NextChar(lx), LAMBDA open :
    Bind(Collect(open.lexer, "not_quote", <<>>), LAMBDA got :
        IF got.lexer.source # <<>>
        THEN IF Head(got.lexer.source) = "\""
             THEN LexResult(Token("String", open.position, Str(got.buffer)),
                            NextChar(got.lexer).lexer, FALSE)
             ELSE LexResult(Token("Unknown", open.position, Str(got.buffer)),
                            got.lexer, FALSE)
        ELSE LexResult(Token("Unknown", got.lexer.position, Str(got.buffer)),
                       got.lexer, FALSE)))

\* The single-character symbols of lex().
SymbolKind(c) ==
    CASE c = "(" -> "LeftParenthesis"
      [] c = ")" -> "RightParenthesis"
      [] c = "{" -> "LeftBrace"
      [] c = "}" -> "RightBrace"
      [] c = "[" -> "LeftBracket"
      [] c = "]" -> "RightBracket"
      [] c = "," -> "Comma"
      [] c = "?" -> "QuestionMark"
      [] c = "$" -> "DollarSign"
      [] c = "#" -> "Hash"
      [] c = ":" -> "Colon"
      [] c = "." -> "Dot"
      [] c = "@" -> "At"
      [] OTHER -> "Unknown"

\* The operator arms of lex(): the character that makes the two-character
\* token, the token it makes, and the token the first character makes alone.
OperatorArm(c) ==
    CASE c = "^" -> [second |-> "=", two |-> "CaretEqual", one |-> "Caret"]
      [] c = "%" -> [second |-> "=", two |-> "PercentEqual", one |-> "Percent"]
      [] c = "+" -> [second |-> "=", two |-> "PlusEqual", one |-> "Plus"]
      [] c = "-" -> [second |-> "=", two |-> "MinusEqual", one |-> "Minus"]
      [] c = "*" -> [second |-> "=", two |-> "AsteriskEqual", one |-> "Asterisk"]
      [] c = "/" -> [second |-> "=", two |-> "SlashEqual", one |-> "Slash"]
      [] c = "=" -> [second |-> "=", two |-> "Equals", one |-> "Equal"]
      [] c = "!" -> [second |-> "=", two |-> "NotEqual", one |-> "ExplinationMark"]
      [] c = ">" -> [second |-> "=", two |-> "GreaterThanOrEqual", one |-> "GreaterThan"]
      [] c = "<" -> [second |-> "=", two |-> "LessThanOrEqual", one |-> "LessThan"]
      [] c = "&" -> [second |-> "&", two |-> "And", one |-> "Ampersand"]
      [] c = "|" -> [second |-> "|", two |-> "Or", one |-> "Unknown"]

OperatorStarts == {"^", "%", "+", "-", "*", "/", "=", "!", ">", "<", "&", "|"}

\* Operator arms that never look at the character after the first.
LexSymbolNoLookahead(position, current, l1) ==
    LexResult(IF current \in OperatorStarts /\ OperatorArm(current).one # "Unknown"
              THEN Tok(OperatorArm(current).one, position)
              ELSE IF current \notin OperatorStarts /\ SymbolKind(current) # "Unknown"
              THEN Tok(SymbolKind(current), position)
              ELSE Token("Unknown", position, current), l1, FALSE)

\* The operator and symbol arms of lex(), after next_char has consumed the
\* character: position and current are what next_char returned, l1 is the
\* lexer after it.
RECURSIVE Lex(_)
LexSymbol(position, current, l1) ==
    IF current \in OperatorStarts
    THEN LET arm == OperatorArm(current) IN
         IF l1.source = <<>>
         THEN LexResult(IF arm.one = "Unknown"
                        THEN Token("Unknown", position, current)
                        ELSE Tok(arm.one, position), l1, FALSE)
         ELSE IF current = "/" /\ Head(l1.source) = "/"
              THEN Lex(ConsumeCommentLoop(l1))
         ELSE IF current = "/" /\ Head(l1.source) = "*"
              THEN Lex(ConsumeMultilineLoop(l1))
         ELSE IF Head(l1.source) = arm.second
              THEN LexResult(Tok(arm.two, position), NextChar(l1).lexer, FALSE)
         ELSE LexResult(IF arm.one = "Unknown"
                        THEN Token("Unknown", position, current)
                        ELSE Tok(arm.one, position), l1, FALSE)
    ELSE LexResult(IF SymbolKind(current) = "Unknown"
                   THEN Token("Unknown", position, current)
                   ELSE Tok(SymbolKind(current), position), l1, FALSE)

\* lex(): the next token and the lexer after it.
Lex(lx) ==
    Bind(lx, LAMBDA l :
        IF l.source = <<>>
        THEN LexResult(Tok("Eof", l.position), l, FALSE)
        ELSE LET c == Head(l.source) IN
             IF IsWhitespace(c) THEN Lex(ConsumeWhitespaceLoop(l))
             ELSE IF IsAlphabetic(c) THEN CollectId(l)
             ELSE IF c = "\"" THEN CollectString(l)
             ELSE IF IsNumeric(c) THEN CollectNumber(l)
             ELSE Bind(NextChar(l), LAMBDA nc :
                      LexSymbol(nc.position, nc.current, nc.lexer)))

\* A peek() that lexes on self instead of on a clone.
PeekOnSelf(lx) ==
    Bind(Lex(lx), LAMBDA r :
        [token |-> r.token, lexer |-> r.lexer, underflow |-> r.underflow])

\* peek(): lex() on a Lexer built from clones of source and position; the
\* clone is dropped and self is left as it was.
Peek(lx) ==
    Bind(Lex([source |-> lx.source, position |-> lx.position]), LAMBDA r :
        [token |-> r.token, lexer |-> lx, underflow |-> r.underflow])

(***************************************************************************)
(* The lexer driven directly: a caller that calls lex() and peek() in any  *)
(* order on a lexer over one source text.                                  *)
(***************************************************************************)
MaxSrcLen == 3

LexChars == {"a", "1", " ", "\n", "\"", "/", "*", "=", "+", "|", "$", CJK, EACUTE, ARABIC3}

\* All sequences over S of length at most n.
SeqsUpTo(S, n) == UNION {[1..m -> S] : m \in 0..n}

LexSamples ==
    { <<"/", "*", " ", "a", " ", "*", "*", "/", "b">>,
      <<"/", "*", "/", "a">>,
      <<"/", "*", "*", "/", "b">>,
      <<"1", "2", "a", "b", "c">>,
      <<"i", "f", " ", "x", "\n", "i", "n">>,
      <<CJK, CJK, " ", "a">> }

\* Every operator start character alone, and followed by `=`, `&`, `|`,
\* itself or a letter, with and without a character after that.
OperatorInputs ==
    {<<c>> : c \in OperatorStarts}
        \cup {<<c, d>> : c \in OperatorStarts, d \in {"=", "&", "|", "a"}}
        \cup {<<c, c>> : c \in OperatorStarts}
        \cup {<<c, d, "=">> : c \in OperatorStarts, d \in {"=", "&", "|"}}

LexInputs == SeqsUpTo(LexChars, MaxSrcLen) \cup LexSamples \cup OperatorInputs

\* Before the caller has built its lexer.
Init ==
    /\ program = <<>>
    /\ overflowChecks = "unknown"
    /\ lexer = Nil
    /\ token = Nil
    /\ peeked = Nil
    /\ stack = <<>>
    /\ ret = Nil
    /\ outcome = "new"
    /\ opt = Nil
    /\ files = <<>>
    /\ started = Nil
    /\ edit_mode = Nil
    /\ line = Nil
    /\ raw_mode = FALSE
    /\ event = Nil
    /\ evaluated = <<>>
    /\ repl_at = "new"

\* The caller builds the lexer: Lexer::new(source).
LexerNewCall ==
    /\ outcome = "new"
    /\ program' \in LexInputs
    /\ lexer' = LexerNew(program')
    /\ outcome' = "running"
    /\ UNCHANGED <<overflowChecks, token, peeked, stack, ret, opt, files, started>>
    /\ UNCHANGED replVars

\* The overflow-checks settings the build may have, given what the run has
\* shown of it so far.
Builds == IF overflowChecks = "unknown" THEN {"on", "off"} ELSE {overflowChecks}

\* The caller calls lexer.lex().  A subtraction below zero panics in a build
\* with overflow checks and wraps in one without.
LexCall ==
    /\ outcome = "running"
    /\ \E result \in {Lex(lexer)}, checks \in Builds :
          /\ overflowChecks' = IF result.underflow THEN checks ELSE overflowChecks
          /\ IF result.underflow /\ checks = "on"
             THEN /\ outcome' = "panic"
                  /\ UNCHANGED <<lexer, token, peeked>>
             ELSE /\ lexer' = result.lexer
                  /\ token' = result.token
                  /\ peeked' = Nil
                  /\ UNCHANGED outcome
    /\ UNCHANGED <<program, stack, ret, opt, files, started>>
    /\ UNCHANGED replVars

\* The caller calls lexer.peek().
PeekCall ==
    /\ outcome = "running"
    /\ \E result \in {Peek(lexer)}, checks \in Builds :
          /\ overflowChecks' = IF result.underflow THEN checks ELSE overflowChecks
          /\ IF result.underflow /\ checks = "on"
             THEN /\ outcome' = "panic"
                  /\ UNCHANGED <<lexer, token, peeked>>
             ELSE /\ lexer' = result.lexer
                  /\ peeked' = result.token
                  /\ UNCHANGED <<token, outcome>>
    /\ UNCHANGED <<program, stack, ret, opt, files, started>>
    /\ UNCHANGED replVars

LexNext == LexerNewCall \/ LexCall \/ PeekCall

LexSpec == Init /\ [][LexNext]_vars

\* The caller goes on calling lex() for as long as the process lives.
FairLexSpec == LexSpec /\ WF_vars(LexerNewCall) /\ WF_vars(LexCall)

(***************************************************************************)
(* AST (src/hash/ast.rs as the parser uses it)                             *)
(***************************************************************************)
\* An ASTNode variant: its name, the String or bool it carries (as text) and
\* its child nodes in order.
Node(kind, text, kids) == [kind |-> kind, text |-> text, kids |-> kids]

Leaf(kind, text) == Node(kind, text, <<>>)

\* Option<Node>: None has no child, Some(n) has one.
None == <<>>
Some(n) == <<n>>

Sentinels == {"ParenDelimiter", "BraceDelimiter", "BracketDelimiter", "Separator"}

\* ASTError::UnknownToken / UnexpectedToken / EarlyEOF carry a token,
\* ASTError::Errors carries a list of errors.
ASTError(kind, tok) == [kind |-> kind, token |-> tok]
ASTErrors(errors) == [kind |-> "Errors", errors |-> errors]

\* Vec<T>
Vec(items) == [kind |-> "Vec", items |-> items]

Ok(value) == [kind |-> "Ok", value |-> value]
Err(error) == [kind |-> "Err", error |-> error]

\* impl Display for Token, for the tokens the parser prints; the In and As
\* arms are todo!().
DisplayPanics(tok) == tok.kind \in {"In", "As"}

ToString(tok) ==
    CASE tok.kind = "Plus" -> "+"
      [] tok.kind = "Minus" -> "-"
      [] tok.kind = "Asterisk" -> "*"
      [] tok.kind = "Slash" -> "/"
      [] tok.kind = "Equals" -> "=="
      [] tok.kind = "NotEqual" -> "!="
      [] tok.kind = "GreaterThan" -> ">"
      [] tok.kind = "GreaterThanOrEqual" -> ">="
      [] tok.kind = "LessThan" -> "<"
      [] tok.kind = "LessThanOrEqual" -> "<="
      [] tok.kind = "And" -> "and"
      [] tok.kind = "Or" -> "or"
      [] tok.kind = "ExplinationMark" -> "!"
      [] tok.kind = "At" -> "@"
      [] tok.kind = "Percent" -> "%"
      [] tok.kind = "Caret" -> "^"
      [] OTHER -> tok.kind

(***************************************************************************)
(* Parser (src/hash/parser.rs)                                             *)
(*                                                                         *)
(* The call stack is explicit: a frame is one active call of a parse_*     *)
(* function, with its locals and the place (pc) at which it goes on when   *)
(* its callee returns.  A step runs the frame on top from there to its     *)
(* next call or to its return.  A call in tail position (its Result is     *)
(* returned as it is) replaces the frame.                                  *)
(***************************************************************************)
MaxErrors == 4

Frame(fn, pc) ==
    [fn |-> fn, pc |-> pc, token |-> Nil, id |-> "", op |-> "",
     nodes |-> <<>>, errors |-> <<>>, a |-> Nil, b |-> Nil]

Top(stk) == stk[Len(stk)]
Pop(stk) == SubSeq(stk, 1, Len(stk) - 1)
SetTop(stk, frame) == [stk EXCEPT ![Len(stk)] = frame]
At(stk, pc) == SetTop(stk, [Top(stk) EXCEPT !.pc = pc])

\* errors.push(error).  The model keeps at most MaxErrors errors in one
\* list: a push on a full list leaves it as it is.
PushError(errors, error) ==
    IF Len(errors) < MaxErrors THEN Append(errors, error) ELSE errors

\* The lexer as a step of the parser threads it: the Lexer, and whether a
\* lex() or peek() of this step took a usize below zero.
Tracked(lx) == [source |-> lx.source, position |-> lx.position, underflow |-> FALSE]

\* Parser::next.
ParserNext(lx) ==
    Bind(Lex(lx), LAMBDA r :
        [token |-> r.token,
         lexer |-> [source |-> r.lexer.source, position |-> r.lexer.position,
                    underflow |-> lx.underflow \/ r.underflow]])

\* Parser::peek.
ParserPeek(lx) ==
    Bind(Peek(lx), LAMBDA r :
        [token |-> r.token,
         lexer |-> [source |-> lx.source, position |-> lx.position,
                    underflow |-> lx.underflow \/ r.underflow]])

\* What a step does: it goes on with a new stack (after a call, or inside
\* the same frame), returns a Result to the caller, or panics at the named
\* macro or method ("" when it does not panic).
Continue(lx, stk) == [lexer |-> lx, stack |-> stk, ret |-> Nil, panic |-> ""]
Return(lx, stk, result) == [lexer |-> lx, stack |-> Pop(stk), ret |-> result, panic |-> ""]
Panic(lx, stk, at) == [lexer |-> lx, stack |-> stk, ret |-> Nil, panic |-> at]

\* The payload of a panic.
Panicked(at) == [kind |-> "Panic", at |-> at]

\* self.f(): the caller goes on at pc when the callee returns.
Call(lx, stk, pc, fn) == Continue(lx, Append(At(stk, pc), Frame(fn, "start")))

\* return self.f(): the callee's Result is the caller's.
TailCall(lx, stk, fn) == Continue(lx, SetTop(stk, Frame(fn, "start")))

\* self.parse_term(): parse_term calls parse_factor at once.
TermFrames == <<Frame("parse_term", "left"), Frame("parse_factor", "start")>>

CallTerm(lx, stk, pc) == Continue(lx, At(stk, pc) \o TermFrames)

\* self.parse_expression(): parse_expression calls parse_term at once.
ExpressionFrames == <<Frame("parse_expression", "left")>> \o TermFrames

CallExpression(lx, stk, pc) == Continue(lx, At(stk, pc) \o ExpressionFrames)

\* ---- parse --------------------------------------------------------------

\* A loop of parse() without the arm for Unknown tokens.
ParseLoopNoUnknown(lx, stk) ==
    Bind(ParserPeek(lx), LAMBDA p :
        IF p.token.kind = "Eof"
        THEN Return(p.lexer, stk,
                    IF Top(stk).errors = <<>> THEN Ok(Vec(Top(stk).nodes))
                    ELSE Err(Vec(Top(stk).errors)))
        ELSE Call(p.lexer, stk, "node", "parse_node"))

\* One turn of the loop of parse().
ParseLoop(lx, stk) ==
    Bind(ParserPeek(lx), LAMBDA p :
        IF p.token.kind = "Unknown"
        THEN Bind(ParserNext(p.lexer), LAMBDA n :
                 Continue(n.lexer,
                          SetTop(stk, [Top(stk) EXCEPT !.errors =
                              PushError(@, ASTError("UnknownToken", n.token))])))
        ELSE IF p.token.kind = "Eof"
        THEN Return(p.lexer, stk,
                    IF Top(stk).errors = <<>> THEN Ok(Vec(Top(stk).nodes))
                    ELSE Err(Vec(Top(stk).errors)))
        ELSE Call(p.lexer, stk, "node", "parse_node"))

\* parse(): at "loop" a turn of the loop; at "node" parse_node has returned,
\* its node or its error is pushed and the loop turns again.
Parse(lx, stk, r) ==
    LET f == Top(stk)
    IN IF f.pc = "loop"
       THEN ParseLoop(lx, stk)
       ELSE IF r.kind = "Ok"
       THEN ParseLoop(lx, SetTop(stk, [f EXCEPT !.pc = "loop",
                                                !.nodes = Append(@, r.value)]))
       ELSE ParseLoop(lx, SetTop(stk, [f EXCEPT !.pc = "loop",
                                                !.errors = PushError(@, r.error)]))

\* ---- parse_node ---------------------------------------------------------

AssignmentTokens ==
    {"PlusEqual", "MinusEqual", "AsteriskEqual", "SlashEqual", "PercentEqual",
     "CaretEqual", "Equal"}

\* The Identifier arm of parse_node: one token of lookahead decides.
ParseNodeIdentifier(lx, stk, tok) ==
    Bind(ParserPeek(lx), LAMBDA p :
        LET pk == p.token.kind
            own == SetTop(stk, [Top(stk) EXCEPT !.token = tok, !.id = tok.text])
        IN CASE pk = "LeftParenthesis" ->
                  \* parse_function calls parse_set at once
                  Continue(p.lexer, At(own, "function")
                      \o <<Frame("parse_function", "set"), Frame("parse_set", "start")>>)
             [] pk = "Colon" -> Call(p.lexer, own, "declare", "parse_variable")
             [] pk \in AssignmentTokens -> Call(p.lexer, own, "assign", "parse_variable")
             [] OTHER -> Return(p.lexer, stk, Ok(Leaf("Identifier", tok.text))))

\* The arms of parse_node on the token next() returned; l1 is the lexer
\* after it.
ParseNodeMatch(l1, stk, tok) ==
    LET k == tok.kind
        own == SetTop(stk, [Top(stk) EXCEPT !.token = tok])
    IN CASE k = "LeftParenthesis" -> TailCall(l1, stk, "parse_set")
         [] k = "RightParenthesis" -> Return(l1, stk, Ok(Leaf("ParenDelimiter", "")))
         [] k = "LeftBrace" -> TailCall(l1, stk, "parse_scope")
         [] k = "RightBrace" -> Return(l1, stk, Ok(Leaf("BraceDelimiter", "")))
         [] k = "LeftBracket" -> TailCall(l1, stk, "parse_array")
         [] k = "RightBracket" -> Return(l1, stk, Ok(Leaf("BracketDelimiter", "")))
         [] k = "Comma" -> Return(l1, stk, Ok(Leaf("Separator", "")))
         [] k = "String" -> Return(l1, stk, Ok(Leaf("StringLiteral", tok.text)))
         [] k = "Number" -> Return(l1, stk, Ok(Leaf("NumberLiteral", tok.text)))
         [] k = "Boolean" ->
              Return(l1, stk, Ok(Leaf("BooleanLiteral",
                  IF tok.text = "true" THEN "true" ELSE "false")))
         [] k = "Type" ->
              Return(l1, stk,
                  IF tok.text = "num" THEN Ok(Leaf("NumberType", ""))
                  ELSE IF tok.text = "str" THEN Ok(Leaf("StringType", ""))
                  ELSE IF tok.text = "bool" THEN Ok(Leaf("BooleanType", ""))
                  ELSE Err(ASTError("UnknownToken", tok)))
         [] k \in {"Asterisk", "Slash", "Plus", "Minus"} ->
              CallExpression(l1, own, "unary")
         [] k = "Identifier" -> ParseNodeIdentifier(l1, stk, tok)
         [] k = "Keyword" ->
              IF tok.text = "if" THEN CallExpression(l1, own, "if_cond")
              ELSE IF tok.text = "while" THEN CallExpression(l1, own, "while_cond")
              ELSE Return(l1, stk, Err(ASTError("UnexpectedToken", tok)))
         [] OTHER -> Return(l1, stk, Err(ASTError("UnexpectedToken", tok)))

\* The `if` arm of parse_node after the block: whatever follows, parse_node
\* is called for the else slot, unless a keyword other than `else` follows.
ParseNodeAfterIfBody(lx, stk) ==
    Bind(ParserPeek(lx), LAMBDA p :
        IF p.token.kind = "Keyword"
        THEN IF p.token.text = "else"
             THEN Call(p.lexer, stk, "if_else", "parse_node")
             ELSE Bind(ParserNext(p.lexer), LAMBDA n :
                      Return(n.lexer, stk, Err(ASTError("UnknownToken", n.token))))
        ELSE Call(p.lexer, stk, "if_else", "parse_node"))

\* parse_node: at "start" its first line; elsewhere the callee named by pc
\* has returned r.
ParseNode(lx, stk, r) ==
    LET f == Top(stk)
        identifier == Leaf("Identifier", f.id)
        substitute == Err(ASTError("UnexpectedToken", f.token))
    IN CASE f.pc = "start" ->
              Bind(ParserNext(lx), LAMBDA n : ParseNodeMatch(n.lexer, stk, n.token))
         [] f.pc = "unary" ->
              IF r.kind = "Ok"
              THEN Return(lx, stk, Ok(Node("UnaryExpression", "",
                       <<Leaf("Operator", ToString(f.token)), r.value>>)))
              ELSE Panic(lx, stk, "todo!()")
         [] f.pc = "function" ->
              IF r.kind = "Ok"
              THEN IF Len(r.value.items) = 1
                   THEN Return(lx, stk, Ok(Node("FunctionCall", "",
                            <<identifier, r.value.items[1]>>)))
                   ELSE Return(lx, stk, Ok(Node("FunctionDefinition", "",
                            <<identifier, r.value.items[1], r.value.items[2], r.value.items[3]>>)))
              ELSE Return(lx, stk, substitute)
         [] f.pc = "declare" ->
              IF r.kind = "Ok"
              THEN IF Len(r.value.items) = 1
                   THEN Return(lx, stk, Ok(Node("VariableDeclaration", "",
                            <<identifier, r.value.items[1]>>)))
                   ELSE Return(lx, stk, Ok(Node("VariableDefinition", "",
                            <<identifier, r.value.items[1], r.value.items[2]>>)))
              ELSE Return(lx, stk, substitute)
         [] f.pc = "assign" ->
              IF r.kind = "Ok"
              THEN IF Len(r.value.items) = 2
                   THEN Return(lx, stk, Ok(Node("VariableDefinition", "",
                            <<identifier, r.value.items[1], r.value.items[2]>>)))
                   ELSE Return(lx, stk, Ok(Node("VariableDefinition", "",
                            <<identifier, r.value.items[1],
                              Node("BinaryExpression", "",
                                   <<identifier, r.value.items[2], r.value.items[3]>>)>>)))
              ELSE Return(lx, stk, substitute)
         [] f.pc = "if_cond" ->
              IF r.kind = "Ok"
              THEN Call(lx, SetTop(stk, [f EXCEPT !.a = r.value]), "if_body", "parse_scope")
              ELSE Return(lx, stk, r)                               \* ?
         [] f.pc = "if_body" ->
              IF r.kind = "Ok"
              THEN ParseNodeAfterIfBody(lx, SetTop(stk, [f EXCEPT !.b = r.value]))
              ELSE Return(lx, stk, r)                               \* ?
         [] f.pc = "if_else" ->
              IF r.kind = "Ok"
              THEN Return(lx, stk, Ok(Node("If", "", <<f.a, f.b, r.value>>)))
              ELSE Panic(lx, stk, "unwrap()")
         [] f.pc = "while_cond" ->
              IF r.kind = "Ok"
              THEN Call(lx, SetTop(stk, [f EXCEPT !.a = r.value]), "while_body", "parse_scope")
              ELSE Return(lx, stk, r)                               \* ?
         [] f.pc = "while_body" ->
              IF r.kind = "Ok"
              THEN Return(lx, stk, Ok(Node("While", "", <<f.a, r.value>>)))
              ELSE Return(lx, stk, r)                               \* ?

\* ---- parse_function, parse_return ---------------------------------------

\* A parse_function that returns the list alone whatever follows it.
ParseFunctionListOnly(lx, stk, r) ==
    IF r.kind = "Err"
    THEN Return(lx, stk, r)
    ELSE Return(lx, stk, Ok(Vec(<<r.value>>)))

\* parse_function: at "set" parse_set has returned, at "return" parse_return
\* has, at "body" parse_scope has; b holds the Return node of the
\* definition.
ParseFunction(lx, stk, r) ==
    LET f == Top(stk)
    IN IF r.kind = "Err"
       THEN Return(lx, stk, r)
       ELSE CASE f.pc = "set" ->
                   Bind(ParserPeek(lx), LAMBDA p :
                       IF p.token.kind = "LeftBrace"
                       THEN Call(p.lexer,
                                 SetTop(stk, [f EXCEPT !.a = r.value,
                                                       !.b = Node("Return", "", None)]),
                                 "body", "parse_scope")
                       ELSE IF p.token.kind = "Colon"
                       THEN Call(p.lexer, SetTop(stk, [f EXCEPT !.a = r.value]),
                                 "return", "parse_return")
                       ELSE Return(p.lexer, stk, Ok(Vec(<<r.value>>))))
              [] f.pc = "return" ->
                   Bind(ParserPeek(lx), LAMBDA p :
                       IF p.token.kind = "LeftBrace"
                       THEN Call(p.lexer,
                                 SetTop(stk, [f EXCEPT !.b =
                                     Node("Return", "", Some(r.value))]),
                                 "body", "parse_scope")
                       ELSE Bind(ParserNext(p.lexer), LAMBDA n :
                                Return(n.lexer, stk,
                                       Err(ASTError("UnexpectedToken", n.token)))))
              [] f.pc = "body" -> Return(lx, stk, Ok(Vec(<<f.a, f.b, r.value>>)))

\* parse_return: the colon is consumed and parse_node's Result is returned.
ParseReturn(lx, stk, r) ==
    Bind(ParserNext(lx), LAMBDA n : TailCall(n.lexer, stk, "parse_node"))

\* ---- parse_set ----------------------------------------------------------

\* A parse_set that takes only `{` as the mark of a definition.
ParseSetEndBraceOnly(lx, stk) ==
    IF Top(stk).errors = <<>>
    THEN Bind(ParserPeek(lx), LAMBDA p :
             Return(p.lexer, stk,
                    Ok(Node(IF p.token.kind = "LeftBrace"
                            THEN "Parameters" ELSE "Arguments",
                            "", Top(stk).nodes))))
    ELSE Return(lx, stk, Err(ASTErrors(Top(stk).errors)))

\* parse_set after its loop.
ParseSetEnd(lx, stk) ==
    IF Top(stk).errors = <<>>
    THEN Bind(ParserPeek(lx), LAMBDA p :
             Return(p.lexer, stk,
                    Ok(Node(IF p.token.kind \in {"LeftBrace", "Colon"}
                            THEN "Parameters" ELSE "Arguments",
                            "", Top(stk).nodes))))
    ELSE Return(lx, stk, Err(ASTErrors(Top(stk).errors)))

\* One turn of the loop of parse_set, up to the call of parse_node.
ParseSetLoop(lx, stk) ==
    Bind(ParserPeek(lx), LAMBDA p :
        IF p.token.kind = "RightParenthesis"
        THEN Bind(ParserNext(p.lexer), LAMBDA n : ParseSetEnd(n.lexer, stk))
        ELSE Call(p.lexer, stk, "item", "parse_node"))

\* parse_set: at "start" its self.next() and the loop; at "item" parse_node
\* has returned r.
ParseSet(lx, stk, r) ==
    LET f == Top(stk)
    IN IF f.pc = "start"
       THEN Bind(ParserNext(lx), LAMBDA n : ParseSetLoop(n.lexer, stk))
       ELSE IF r.kind = "Ok"
       THEN IF r.value.kind = "ParenDelimiter"
            THEN Bind(ParserNext(lx), LAMBDA n : ParseSetEnd(n.lexer, stk))
            ELSE IF r.value.kind = "Separator"
            THEN ParseSetLoop(lx, stk)
            ELSE ParseSetLoop(lx, SetTop(stk, [f EXCEPT !.nodes = Append(@, r.value)]))
       ELSE ParseSetLoop(lx, SetTop(stk, [f EXCEPT !.errors = PushError(@, r.error)]))

\* ---- parse_scope --------------------------------------------------------

\* parse_scope after its loop.
ParseScopeEnd(lx, stk) ==
    IF Top(stk).errors = <<>>
    THEN Return(lx, stk, Ok(Node("Block", "", Top(stk).nodes)))
    ELSE Return(lx, stk, Err(ASTErrors(Top(stk).errors)))

\* One turn of the loop of parse_scope, up to the call of parse_node.
ParseScopeLoop(lx, stk) ==
    Bind(ParserPeek(lx), LAMBDA p :
        IF p.token.kind = "RightBrace"
        THEN Bind(ParserNext(p.lexer), LAMBDA n : ParseScopeEnd(n.lexer, stk))
        ELSE Call(p.lexer, stk, "item", "parse_node"))

\* parse_scope: at "start" its self.next() and the loop; at "item"
\* parse_node has returned r.
ParseScope(lx, stk, r) ==
    LET f == Top(stk)
    IN IF f.pc = "start"
       THEN Bind(ParserNext(lx), LAMBDA n : ParseScopeLoop(n.lexer, stk))
       ELSE IF r.kind = "Ok"
       THEN IF r.value.kind = "BraceDelimiter"
            THEN Bind(ParserNext(lx), LAMBDA n : ParseScopeEnd(n.lexer, stk))
            ELSE ParseScopeLoop(lx, SetTop(stk, [f EXCEPT !.nodes = Append(@, r.value)]))
       ELSE ParseScopeLoop(lx, SetTop(stk, [f EXCEPT !.errors = PushError(@, r.error)]))

\* ---- parse_array --------------------------------------------------------

\* parse_array after its loop.
ParseArrayEnd(lx, stk) ==
    IF Top(stk).errors = <<>>
    THEN Return(lx, stk, Ok(Node("Array", "", Top(stk).nodes)))
    ELSE Return(lx, stk, Err(ASTErrors(Top(stk).errors)))

\* One turn of the loop of parse_array, up to the call of parse_node.
ParseArrayLoop(lx, stk) ==
    Bind(ParserPeek(lx), LAMBDA p :
        IF p.token.kind = "RightBracket"
        THEN Bind(ParserNext(p.lexer), LAMBDA n : ParseArrayEnd(n.lexer, stk))
        ELSE Call(p.lexer, stk, "item", "parse_node"))

\* parse_array: at "start" its self.next() and the loop; at "item"
\* parse_node has returned r.
ParseArray(lx, stk, r) ==
    LET f == Top(stk)
    IN IF f.pc = "start"
       THEN Bind(ParserNext(lx), LAMBDA n : ParseArrayLoop(n.lexer, stk))
       ELSE IF r.kind = "Ok"
       THEN IF r.value.kind = "BracketDelimiter"
            THEN Bind(ParserNext(lx), LAMBDA n : ParseArrayEnd(n.lexer, stk))
            ELSE IF r.value.kind = "Separator"
            THEN ParseArrayLoop(lx, stk)
            ELSE ParseArrayLoop(lx, SetTop(stk, [f EXCEPT !.nodes = Append(@, r.value)]))
       ELSE ParseArrayLoop(lx, SetTop(stk, [f EXCEPT !.errors = PushError(@, r.error)]))

\* ---- parse_variable, parse_type -----------------------------------------

\* A compound assignment that always stands for `+`.
CompoundOperatorPlus(kind) == "+"

\* The operator a compound assignment token stands for.
CompoundOperator(kind) ==
    CASE kind = "PlusEqual" -> "+"
      [] kind = "MinusEqual" -> "-"
      [] kind = "AsteriskEqual" -> "*"
      [] kind = "SlashEqual" -> "/"
      [] kind = "PercentEqual" -> "%"
      [] kind = "CaretEqual" -> "^"

\* parse_variable: at "start" its match on the token; at "compound",
\* "equal" and "init" parse_expression has returned r, at "type" parse_type
\* has.
ParseVariable(lx, stk, r) ==
    LET f == Top(stk)
        untyped == Node("Type", "", None)
    IN IF f.pc = "start"
       THEN Bind(ParserNext(lx), LAMBDA n :
                IF n.token.kind \in AssignmentTokens \ {"Equal"}
                THEN CallExpression(n.lexer,
                         SetTop(stk, [f EXCEPT !.op = CompoundOperator(n.token.kind)]),
                         "compound")
                ELSE IF n.token.kind = "Equal"
                THEN CallExpression(n.lexer, stk, "equal")
                ELSE IF n.token.kind = "Colon"
                THEN Call(n.lexer, stk, "type", "parse_type")
                ELSE Return(n.lexer, stk, Err(ASTError("UnknownToken", n.token))))
       ELSE IF r.kind = "Err"
       THEN Return(lx, stk, r)                                      \* ?
       ELSE CASE f.pc = "compound" ->
                   Return(lx, stk, Ok(Vec(<<untyped, Leaf("Operator", f.op), r.value>>)))
              [] f.pc = "equal" -> Return(lx, stk, Ok(Vec(<<untyped, r.value>>)))
              [] f.pc = "type" ->
                   Bind(ParserPeek(lx), LAMBDA p :
                       IF p.token.kind = "Equal"
                       THEN Bind(ParserNext(p.lexer), LAMBDA n :
                                CallExpression(n.lexer,
                                    SetTop(stk, [f EXCEPT !.a = r.value]), "init"))
                       ELSE Return(p.lexer, stk,
                                   Ok(Vec(<<Node("Type", "", Some(r.value))>>))))
              [] f.pc = "init" ->
                   Return(lx, stk, Ok(Vec(<<Node("Type", "", Some(f.a)), r.value>>)))

\* A parse_type that reads the type without consuming its token.
ParseTypeKeepsToken(lx, stk, r) ==
    Bind(ParserPeek(lx), LAMBDA p :
        Return(lx, stk, Ok(Leaf("NumberType", ""))))

\* parse_type: parse_node's Result is returned.
ParseType(lx, stk, r) == TailCall(lx, stk, "parse_node")

\* ---- parse_expression, parse_term, parse_factor -------------------------

UnaryOperators == {"ExplinationMark", "Plus", "Minus"}

BinaryOperators ==
    {"At", "In", "As", "And", "Or", "Equals", "NotEqual", "GreaterThan",
     "GreaterThanOrEqual", "LessThan", "LessThanOrEqual", "Caret", "Percent",
     "Asterisk", "Slash", "Plus", "Minus"}

\* match_unary_operator / match_binary_operator over the given tokens: the
\* Option<String> returned, the lexer after the call, and whether
\* to_string() panicked.
MatchOperator(lx, operators) ==
    Bind(ParserPeek(lx), LAMBDA p :
        IF p.token.kind \in operators
        THEN Bind(ParserNext(p.lexer), LAMBDA n :
                 IF DisplayPanics(n.token)
                 THEN [op |-> None, lexer |-> n.lexer, panic |-> TRUE]
                 ELSE [op |-> Some(ToString(n.token)), lexer |-> n.lexer,
                       panic |-> FALSE])
        ELSE [op |-> None, lexer |-> p.lexer, panic |-> FALSE])

MatchUnaryOperator(lx) == MatchOperator(lx, UnaryOperators)

MatchBinaryOperator(lx) == MatchOperator(lx, BinaryOperators)

\* left <- BinaryExpression(left, Operator(op), right)
Combine(f, right) ==
    [f EXCEPT !.a = Node("BinaryExpression", "", <<f.a, Leaf("Operator", f.op), right>>)]

\* The head of the while loop of parse_expression.
ParseExpressionLoop(lx, stk) ==
    Bind(MatchBinaryOperator(lx), LAMBDA m :
        IF m.panic THEN Panic(m.lexer, stk, "todo!()")
        ELSE IF m.op # None
        THEN CallTerm(m.lexer, SetTop(stk, [Top(stk) EXCEPT !.op = m.op[1]]), "right")
        ELSE Return(m.lexer, stk, Ok(Top(stk).a)))

\* parse_expression: at "left" and at "right" parse_term has returned r.
ParseExpression(lx, stk, r) ==
    LET f == Top(stk)
    IN IF r.kind = "Err"
       THEN Return(lx, stk, r)                                      \* ?
       ELSE IF f.pc = "left"
       THEN ParseExpressionLoop(lx, SetTop(stk, [f EXCEPT !.a = r.value]))
       ELSE ParseExpressionLoop(lx, SetTop(stk, Combine(f, r.value)))

\* A parse_term whose loop takes only `*`, `/` and `%`.
ParseTermLoopMultiplicative(lx, stk) ==
    Bind(MatchOperator(lx, {"Asterisk", "Slash", "Percent"}), LAMBDA m :
        IF m.op # None
        THEN Call(m.lexer, SetTop(stk, [Top(stk) EXCEPT !.op = m.op[1]]),
                  "right", "parse_factor")
        ELSE Return(m.lexer, stk, Ok(Top(stk).a)))

\* The head of the while loop of parse_term.
ParseTermLoop(lx, stk) ==
    Bind(MatchBinaryOperator(lx), LAMBDA m :
        IF m.panic THEN Panic(m.lexer, stk, "todo!()")
        ELSE IF m.op # None
        THEN Call(m.lexer, SetTop(stk, [Top(stk) EXCEPT !.op = m.op[1]]),
                  "right", "parse_factor")
        ELSE Return(m.lexer, stk, Ok(Top(stk).a)))

\* parse_term: at "left" and at "right" parse_factor has returned r.
ParseTerm(lx, stk, r) ==
    LET f == Top(stk)
    IN IF r.kind = "Err"
       THEN Return(lx, stk, r)                                      \* ?
       ELSE IF f.pc = "left"
       THEN ParseTermLoop(lx, SetTop(stk, [f EXCEPT !.a = r.value]))
       ELSE ParseTermLoop(lx, SetTop(stk, Combine(f, r.value)))

\* parse_factor: at "start" its first line; at "operand" the inner
\* parse_factor has returned r.
ParseFactor(lx, stk, r) ==
    LET f == Top(stk)
    IN IF f.pc = "start"
       THEN Bind(MatchUnaryOperator(lx), LAMBDA m :
                IF m.panic THEN Panic(m.lexer, stk, "todo!()")
                ELSE IF m.op # None
                THEN Call(m.lexer, SetTop(stk, [f EXCEPT !.op = m.op[1]]),
                          "operand", "parse_factor")
                ELSE TailCall(m.lexer, stk, "parse_node"))
       ELSE IF r.kind = "Ok"
       THEN Return(lx, stk, Ok(Node("UnaryExpression", "",
                <<Leaf("Operator", f.op), r.value>>)))
       ELSE Return(lx, stk, r)                                      \* ?

(***************************************************************************)
(* The parser run: Parser::new(program) and parse(), one step at a time.   *)
(***************************************************************************)
MaxLexemes == 3

Lexemes ==
    { <<"x">>, <<"1">>, <<"(">>, <<")">>, <<"{">>, <<"}">>, <<",">>, <<"=">>,
      <<"+">>, <<"$">>, <<":">>, <<"i", "f">> }

\* The lexemes of ls in order, with one space between two of them.
RECURSIVE Join(_)
Join(ls) ==
    IF ls = <<>> THEN <<>>
    ELSE IF Len(ls) = 1 THEN ls[1]
    ELSE ls[1] \o <<" ">> \o Join(Tail(ls))

\* foo($, $)
SrcCallErrors ==
    <<"f", "o", "o", "(", "$", ",", " ", "$", ")">>

\* if x { y } else { z }
SrcIfElse ==
    <<"i", "f", " ", "x", " ", "{", " ", "y", " ", "}", " ", "e", "l", "s", "e", " ", "{", " ", "z", " ", "}">>

\* foo()
SrcCall ==
    <<"f", "o", "o", "(", ")">>

\* foo() { }
SrcDefinition ==
    <<"f", "o", "o", "(", ")", " ", "{", " ", "}">>

\* foo(a): num { b }
SrcTypedDefinition ==
    <<"f", "o", "o", "(", "a", ")", ":", " ", "n", "u", "m", " ", "{", " ", "b", " ", "}">>

\* foo(a, 1)
SrcCallArguments ==
    <<"f", "o", "o", "(", "a", ",", " ", "1", ")">>

\* x = a in b
SrcIn ==
    <<"x", " ", "=", " ", "a", " ", "i", "n", " ", "b">>

\* 中 = 1
SrcWide ==
    <<CJK, " ", "=", " ", "1">>

\* x = [1, 2]
SrcArray ==
    <<"x", " ", "=", " ", "[", "1", ",", " ", "2", "]">>

\* while x { y }
SrcWhile ==
    <<"w", "h", "i", "l", "e", " ", "x", " ", "{", " ", "y", " ", "}">>

\* x: num = 1
SrcDeclare ==
    <<"x", ":", " ", "n", "u", "m", " ", "=", " ", "1">>

\* if x { y }\nz
SrcIfThen ==
    <<"i", "f", " ", "x", " ", "{", " ", "y", " ", "}", "\n", "z">>

SrcDeclareSum ==
    <<"x", ":", " ", "b", "o", "o", "l", " ", "=", " ", "1", " ", "+", " ", "2">>

SrcDeclareOnly ==
    <<"x", ":", " ", "n", "u", "m">>

SrcCommentSlash ==
    <<"/", "*", "/", "a">>

SrcComments ==
    <<"/", "/", " ", "a", "\n", "/", "*", " ", "b", " ", "*", "/", " ">>

\* The binary operators whose Display is written, as spelled in the source
\* text and as to_string() prints them.
Spelled(lexeme, text) == [lexeme |-> lexeme, text |-> text]

ChainOperators ==
    { Spelled(<<"+">>, "+"), Spelled(<<"-">>, "-"), Spelled(<<"*">>, "*"),
      Spelled(<<"/">>, "/"), Spelled(<<"%">>, "%"), Spelled(<<"^">>, "^"),
      Spelled(<<"@">>, "@"), Spelled(<<"=", "=">>, "=="), Spelled(<<"!", "=">>, "!="),
      Spelled(<<">">>, ">"), Spelled(<<">", "=">>, ">="), Spelled(<<"<">>, "<"),
      Spelled(<<"<", "=">>, "<="), Spelled(<<"&", "&">>, "and"),
      Spelled(<<"|", "|">>, "or") }

\* The operators the chains of two are built from.
ChainPairOperators ==
    {o \in ChainOperators : o.text \in {"+", "*", "-", "==", "and"}}

ChainOperatorSeqs ==
    {<<o>> : o \in ChainOperators}
        \cup {<<o, q>> : o \in ChainPairOperators, q \in ChainPairOperators}

Digit(i) == CHOOSE d \in AsciiDigits : Str(<<d>>) = <<"1", "2", "3">>[i]

\* 1 op1 2 op2 3 ...
RECURSIVE ChainFrom(_, _)
ChainFrom(ops, i) ==
    IF ops = <<>> THEN <<Digit(i)>>
    ELSE <<Digit(i), " ">> \o Head(ops).lexeme \o <<" ">> \o ChainFrom(Tail(ops), i + 1)

\* x = 1 op1 2 op2 3 ...
Chain(ops) == <<"x", " ", "=", " ">> \o ChainFrom(ops, 1)

\* if 1 + 2 * 3 { }
SrcConditionChain ==
    <<"i", "f", " ">> \o ChainFrom(<<Spelled(<<"+">>, "+"), Spelled(<<"*">>, "*")>>, 1)
        \o <<" ", "{", " ", "}">>

\* - 1 + 2 * 3
SrcUnaryChain ==
    <<"-", " ">> \o ChainFrom(<<Spelled(<<"+">>, "+"), Spelled(<<"*">>, "*")>>, 1)

\* Programs of one chain of operands and binary operators.
SrcChains ==
    {Chain(ops) : ops \in ChainOperatorSeqs} \cup {SrcConditionChain, SrcUnaryChain}

CompoundOperators == {"+", "-", "*", "/", "%", "^"}

\* x op= 1
Compound(op) == <<"x", " ", op, "=", " ", "1">>

\* x = x op 1
Spelt(op) == <<"x", " ", "=", " ", "x", " ", op, " ", "1">>

\* x += 1 * 2
SrcCompoundChain == <<"x", " ", "+", "=", " ", "1", " ", "*", " ", "2">>

\* x = 1
SrcAssign == <<"x", " ", "=", " ", "1">>

\* Programs of one assignment to x.
SrcAssignments ==
    {Compound(op) : op \in CompoundOperators}
        \cup {Spelt(op) : op \in CompoundOperators}
        \cup {SrcCompoundChain, SrcAssign}

\* Programs of one literal token.
SrcLiterals ==
    { <<"\"", "a", " ", "1", "\"">>,
      <<"\"", CJK, "\"">>,
      <<"1", "2">>,
      <<"t", "r", "u", "e">>,
      <<"f", "a", "l", "s", "e">>,
      <<ARABIC3, ARABIC3>> }

\* Programs of one string that is never closed.
SrcUnterminated ==
    { <<"\"", "a", "b", "c">>,
      <<"\"", "a", " ", "=", " ", "1", "\n", "b">>,
      <<"\"">>,
      <<"\"", CJK, " ">> }

\* The program of test_parser.
SrcTest ==
    <<"\n", " ", " ", " ", " ", " ", " ", " ", " ", " ", " ", " ", " ", "h",
      "i", "(", ")", " ", "{", "\n", " ", " ", " ", " ", " ", " ", " ", " ",
      " ", " ", " ", " ", " ", " ", " ", " ", "p", "r", "i", "n", "t", "(",
      ")", "\n", " ", " ", " ", " ", " ", " ", " ", " ", " ", " ", " ", " ",
      "}", "\n", "\n", " ", " ", " ", " ", " ", " ", " ", " ", " ", " ", " ",
      " ", "m", "a", "i", "n", "(", ")", " ", "{", "\n", " ", " ", " ", " ",
      " ", " ", " ", " ", " ", " ", " ", " ", " ", " ", " ", " ", "h", "e",
      "l", "l", "o", "(", ")", ":", " ", "n", "u", "m", " ", "{", "\n", " ",
      " ", " ", " ", " ", " ", " ", " ", " ", " ", " ", " ", " ", " ", " ",
      " ", " ", " ", " ", " ", "v", "a", "r", "1", " ", "=", " ", "1", "2",
      "3", "4", "\n", " ", " ", " ", " ", " ", " ", " ", " ", " ", " ", " ",
      " ", " ", " ", " ", " ", " ", " ", " ", " ", "v", "a", "r", "2", " ",
      "=", " ", "1", "2", "3", "4", "\n", " ", " ", " ", " ", " ", " ", " ",
      " ", " ", " ", " ", " ", " ", " ", " ", " ", "}", "\n", "\n", " ", " ",
      " ", " ", " ", " ", " ", " ", " ", " ", " ", " ", " ", " ", " ", " ",
      "h", "e", "l", "l", "o", "(", ")", "\n", "\n", " ", " ", " ", " ", " ",
      " ", " ", " ", " ", " ", " ", " ", " ", " ", " ", " ", "v", "a", "r",
      "1", ":", " ", "n", "u", "m", " ", "=", " ", "1", "2", "3", "4", "\n",
      " ", " ", " ", " ", " ", " ", " ", " ", " ", " ", " ", " ", " ", " ",
      " ", " ", "v", "a", "r", "2", " ", "=", " ", "v", "a", "r", "1", " ",
      "+", " ", "1", "2", "3", "4", "\n", "\n", " ", " ", " ", " ", " ", " ",
      " ", " ", " ", " ", " ", " ", " ", " ", " ", " ", "v", "a", "r", "3",
      ":", " ", "n", "u", "m", " ", "=", " ", "l", "a", "m", "b", "d", "a",
      "(", ")", " ", "{", "\n", " ", " ", " ", " ", " ", " ", " ", " ", " ",
      " ", " ", " ", " ", " ", " ", " ", " ", " ", " ", " ", "v", "a", "r",
      ":", " ", "s", "t", "r", " ", "=", " ", "\"", "H", "e", "l", "l", "o",
      ",", " ", "W", "o", "r", "l", "d", "!", "\"", "\n", " ", " ", " ", " ",
      " ", " ", " ", " ", " ", " ", " ", " ", " ", " ", " ", " ", "}", "\n",
      "\n", " ", " ", " ", " ", " ", " ", " ", " ", " ", " ", " ", " ", " ",
      " ", " ", " ", "v", "a", "r", "4", ":", " ", "b", "o", "o", "l", " ",
      "=", " ", "t", "r", "u", "e", "\n", " ", " ", " ", " ", " ", " ", " ",
      " ", " ", " ", " ", " ", "}", "\n", " ", " ", " ", " ", " ", " ", " ",
      " ">>

\* x = [1, 2, 3]
SrcArrayOfThree ==
    <<"x", " ", "=", " ", "[", "1", ",", " ", "2", ",", " ", "3", "]">>

Samples ==
    { SrcCallErrors, SrcIfElse, SrcCall, SrcDefinition, SrcTypedDefinition, SrcCallArguments,
      SrcIn,
      SrcWide, SrcArray, SrcWhile, SrcDeclare, SrcIfThen,
      SrcDeclareSum, SrcDeclareOnly, SrcCommentSlash, SrcComments,
      SrcTest, SrcArrayOfThree }

Programs ==
    {Join(ls) : ls \in SeqsUpTo(Lexemes, MaxLexemes)} \cup Samples \cup SrcLiterals
        \cup SrcUnterminated \cup SrcChains \cup SrcAssignments

\* Parser::new(program), and the call of parse().
ParserNew ==
    /\ outcome = "new"
    /\ program' \in Programs
    /\ lexer' = LexerNew(program')
    /\ stack' = <<Frame("parse", "loop")>>
    /\ outcome' = "running"
    /\ UNCHANGED <<overflowChecks, token, peeked, ret, opt, files, started>>
    /\ UNCHANGED replVars

\* The function on top of the call stack is fn, and it is to take its next
\* step.
Running(fn) ==
    /\ outcome = "running"
    /\ stack # <<>>
    /\ Top(stack).fn = fn

\* What a step does is done.  A usize that went below zero panics in a build
\* with overflow checks; todo!() and unwrap() on Err panic in any build: ret
\* then holds the panic.  When parse() returns the run is over, and ret
\* holds its Result.
Apply(effect) ==
    /\ \E eff \in {effect}, checks \in Builds :
          /\ overflowChecks' = IF eff.lexer.underflow THEN checks ELSE overflowChecks
          /\ IF eff.lexer.underflow /\ checks = "on"
             THEN /\ outcome' = "panic"
                  /\ ret' = Panicked("attempt to subtract with overflow")
                  /\ UNCHANGED <<lexer, stack>>
             ELSE IF eff.panic # ""
             THEN /\ outcome' = "panic"
                  /\ ret' = Panicked(eff.panic)
                  /\ UNCHANGED <<lexer, stack>>
             ELSE /\ lexer' = [source |-> eff.lexer.source,
                               position |-> eff.lexer.position]
                  /\ stack' = eff.stack
                  /\ ret' = eff.ret
                  /\ outcome' = IF eff.stack # <<>> THEN "running"
                                ELSE IF eff.ret.kind = "Ok" THEN "ok" ELSE "err"
    /\ UNCHANGED <<program, token, peeked, opt, files, started>>
    /\ UNCHANGED replVars

parse ==
    /\ Running("parse")
    /\ Apply(Parse(Tracked(lexer), stack, ret))

parse_node ==
    /\ Running("parse_node")
    /\ Apply(ParseNode(Tracked(lexer), stack, ret))

parse_function ==
    /\ Running("parse_function")
    /\ Apply(ParseFunction(Tracked(lexer), stack, ret))

parse_return ==
    /\ Running("parse_return")
    /\ Apply(ParseReturn(Tracked(lexer), stack, ret))

parse_set ==
    /\ Running("parse_set")
    /\ Apply(ParseSet(Tracked(lexer), stack, ret))

parse_scope ==
    /\ Running("parse_scope")
    /\ Apply(ParseScope(Tracked(lexer), stack, ret))

parse_variable ==
    /\ Running("parse_variable")
    /\ Apply(ParseVariable(Tracked(lexer), stack, ret))

parse_type ==
    /\ Running("parse_type")
    /\ Apply(ParseType(Tracked(lexer), stack, ret))

parse_array ==
    /\ Running("parse_array")
    /\ Apply(ParseArray(Tracked(lexer), stack, ret))

parse_expression ==
    /\ Running("parse_expression")
    /\ Apply(ParseExpression(Tracked(lexer), stack, ret))

parse_term ==
    /\ Running("parse_term")
    /\ Apply(ParseTerm(Tracked(lexer), stack, ret))

parse_factor ==
    /\ Running("parse_factor")
    /\ Apply(ParseFactor(Tracked(lexer), stack, ret))

Next ==
    \/ ParserNew
    \/ parse
    \/ parse_node
    \/ parse_function
    \/ parse_return
    \/ parse_set
    \/ parse_scope
    \/ parse_variable
    \/ parse_type
    \/ parse_array
    \/ parse_expression
    \/ parse_term
    \/ parse_factor

Spec == Init /\ [][Next]_vars

\* The process runs: a step that can be taken is taken.
FairSpec == Spec /\ WF_vars(Next)

(***************************************************************************)
(* main (src/main.rs)                                                      *)
(***************************************************************************)

\* The values of --run and --mode the command line is given; "" and
\* "normal" are clap's defaults.
Runs == {"", "repl", "a.hy", "b.hy", "test/hello.hy"}
Modes == {"normal", "vi", "emacs", "block"}

\* The script files that may exist, and what they may hold.
Paths == {"a.hy", "b.hy", "test/hello.hy"}
Scripts == {SrcCall, SrcDeclare}
FileSystems == UNION {[existing -> Scripts] : existing \in SUBSET Paths}

\* CursorMode::new
CursorModeNew(mode) ==
    IF mode = "normal" THEN "Normal"
    ELSE IF mode = "vi" THEN "Vi"
    ELSE IF mode = "emacs" THEN "Emacs"
    ELSE "Normal"

\* repl(mode) builds its CursorMode and enters the loop.
Repl(mode) == [kind |-> "repl", mode |-> CursorModeNew(mode)]

\* Evaluator::new(&content).eval()
Eval(content) == [kind |-> "eval", program |-> content]

\* fs::read_to_string(path).unwrap(), then the evaluator on the content.
ReadAndEval(fs, path) ==
    IF path \in DOMAIN fs THEN Eval(fs[path]) ELSE Panicked("unwrap()")

\* main(): Opt::parse(), then the REPL when run is "repl", else the script
\* branch, which reads the path written in the code.
main ==
    /\ started = Nil
    /\ \E run \in Runs, mode \in Modes, fs \in FileSystems :
          /\ opt' = [mode |-> mode, run |-> run]
          /\ files' = fs
          /\ started' = IF run = "repl" THEN Repl(mode)
                        ELSE ReadAndEval(fs, "test/hello.hy")
    /\ UNCHANGED <<program, overflowChecks, lexer, token, peeked, stack, ret, outcome>>
    /\ UNCHANGED replVars

MainSpec == Init /\ [][main]_vars

(***************************************************************************)
(* repl (src/repl/mod.rs)                                                  *)
(*                                                                         *)
(* repl blocks in read(); a step runs it from one read() to the next, or   *)
(* to its return.                                                          *)
(***************************************************************************)
MaxLine == 2
MaxEvaluated == 2

mainVars ==
    <<program, overflowChecks, lexer, token, peeked, stack, ret, outcome, opt, files,
      started>>

\* Cell::new
Cell(col, row) == [col |-> col, row |-> row]

\* LineBuffer::new
LineBufferNew == [buffer |-> <<>>, caret |-> Cell(1, 1)]

\* What cursor::position() may give; Cell(1, 1) is also what its failure is
\* replaced by.
Cursors == {Cell(0, 0), Cell(1, 1)}

\* The characters a key may carry.
KeyChars == {"a", "d"}

\* Event::Key(KeyEvent { code, modifiers }) and the other events.
KeyEvent(code, c, control) == [code |-> code, c |-> c, control |-> control]

\* The top of the 'repl loop up to read(): the prompt is printed and the
\* caret is put one past the cursor.
Prompt(l, cursor) == [l EXCEPT !.caret = Cell(cursor.col + 1, cursor.row + 1)]

\* repl(mode) up to its first read(); enable_raw_mode()? may fail.
repl ==
    /\ repl_at = "new"
    /\ \E mode \in Modes, enabled \in BOOLEAN, cursor \in Cursors :
          /\ edit_mode' = CursorModeNew(mode)
          /\ raw_mode' = enabled
          /\ line' = IF enabled THEN Prompt(LineBufferNew, cursor) ELSE LineBufferNew
          /\ repl_at' = IF enabled THEN "read" ELSE "failed"
    /\ UNCHANGED <<event, evaluated>>
    /\ UNCHANGED mainVars

\* read() returns a key with a character: Ctrl-D breaks 'repl, and repl
\* disables raw mode and returns; any other character is pushed.
KeyChar ==
    /\ repl_at = "read"
    /\ \E c \in KeyChars, control \in BOOLEAN :
          /\ event' = KeyEvent("Char", c, control)
          /\ IF control /\ c = "d"
             THEN /\ raw_mode' = FALSE
                  /\ repl_at' = "returned"
                  /\ UNCHANGED line
             ELSE /\ Len(line.buffer) < MaxLine
                  /\ line' = [line EXCEPT !.buffer = Append(@, c)]
                  /\ UNCHANGED <<raw_mode, repl_at>>
    /\ UNCHANGED <<edit_mode, evaluated>>
    /\ UNCHANGED mainVars

\* read() returns Enter: in Normal mode it breaks 'input, and repl disables
\* raw mode, evaluates the buffer, clears it and goes to the top of 'repl;
\* in Vi and Emacs mode the arm is empty.
KeyEnter ==
    /\ repl_at = "read"
    /\ event' = KeyEvent("Enter", "", FALSE)
    /\ IF edit_mode = "Normal"
       THEN /\ Len(evaluated) < MaxEvaluated
            /\ raw_mode' = FALSE
            /\ evaluated' = Append(evaluated, line.buffer)
            /\ \E cursor \in Cursors :
                  line' = Prompt([line EXCEPT !.buffer = <<>>], cursor)
       ELSE UNCHANGED <<raw_mode, evaluated, line>>
    /\ UNCHANGED <<edit_mode, repl_at>>
    /\ UNCHANGED mainVars

\* read() returns another key: every such arm is empty.
KeyOther ==
    /\ repl_at = "read"
    /\ \E code \in {"Backspace", "Delete", "Up", "Left", "Down", "Right"} :
          event' = KeyEvent(code, "", FALSE)
    /\ UNCHANGED <<edit_mode, line, raw_mode, evaluated, repl_at>>
    /\ UNCHANGED mainVars

\* read() returns a mouse or resize event: at most a message is printed.
OtherEvent ==
    /\ repl_at = "read"
    /\ \E kind \in {"Mouse", "Resize"} : event' = KeyEvent(kind, "", FALSE)
    /\ UNCHANGED <<edit_mode, line, raw_mode, evaluated, repl_at>>
    /\ UNCHANGED mainVars

\* read()? fails: repl returns the error at once.
ReadFails ==
    /\ repl_at = "read"
    /\ repl_at' = "failed"
    /\ UNCHANGED <<edit_mode, line, raw_mode, event, evaluated>>
    /\ UNCHANGED mainVars

ReplNext == repl \/ KeyChar \/ KeyEnter \/ KeyOther \/ OtherEvent \/ ReadFails

ReplSpec == Init /\ [][ReplNext]_vars

(***************************************************************************)
(* Lexer claims                                                            *)
(***************************************************************************)

\* C4: lex() and peek() never panic, and the start column computed by
\* collect_id and collect_number (col -= buffer.len()) never goes below zero:
\* every token returned carries a column that did not wrap.
C4_LexNeverPanics ==
    /\ outcome # "panic"
    /\ (token # Nil => token.position.col >= 0)
    /\ (peeked # Nil => peeked.position.col >= 0)

\* C5: peek() leaves the lexer (remaining characters and position) as it
\* was, the lex() that follows a peek() returns the very token the peek()
\* returned, and so does a peek() that follows a peek().
C5_PeekIsLexWithoutAdvance ==
    [][ /\ PeekCall => lexer' = lexer
        /\ (LexCall /\ peeked # Nil /\ outcome' = "running") => token' = peeked
        /\ (PeekCall /\ peeked # Nil /\ outcome' = "running") => peeked' = peeked
      ]_vars

\* C5 witness: in the middle of the input, after a lex(), a peek() has
\* returned a token other than Eof and the lexer still holds that token's
\* characters.
C5_Witness ==
    /\ token # Nil
    /\ peeked # Nil
    /\ peeked.kind = "Identifier"
    /\ lexer.source # <<>>
    /\ Len(lexer.source) < Len(program)

\* C6: lexing any finite input reaches Eof after finitely many lex() calls:
\* a caller that goes on calling lex() is eventually handed Eof.
C6_EofReachedAndStable == <>(token.kind = "Eof")

\* The safety half of C6: a lex() on input that is not exhausted consumes at
\* least one character, and once Eof has been returned lex() and peek()
\* return the same Eof and leave the lexer as it was.
C6_EofStable ==
    [][ /\ (LexCall /\ lexer.source # <<>> /\ outcome' = "running")
            => Len(lexer'.source) < Len(lexer.source)
        /\ (LexCall /\ token.kind = "Eof")
            => (token' = token /\ lexer' = lexer)
        /\ (PeekCall /\ token.kind = "Eof")
            => (peeked' = token /\ lexer' = lexer)
      ]_vars

(***************************************************************************)
(* Parser claims                                                           *)
(***************************************************************************)
Over == outcome \notin {"new", "running"}

\* C1: parse() terminates on every finite source text: the run of the
\* parser comes to an end.
C1_ParseTerminates == <>Over

\* A node of the tree under n, n included, is a sentinel.
RECURSIVE HasSentinel(_)
HasSentinel(n) ==
    \/ n.kind \in Sentinels
    \/ \E i \in 1..Len(n.kids) : HasSentinel(n.kids[i])

\* C2: when parse() returns Ok(nodes), no node of the list, at any depth, is
\* ParenDelimiter, BraceDelimiter, BracketDelimiter or Separator.
C2_NoSentinelLeak ==
    outcome = "ok" =>
        \A i \in 1..Len(ret.value.items) : ~HasSentinel(ret.value.items[i])

\* C3: parse() never reaches a todo!() or an unwrap() on Err: the run never
\* ends in such a panic.
C3_ParseNeverPanics ==
    ~(outcome = "panic" /\ ret.at \in {"todo!()", "unwrap()"})

\* C7: the top-level loop never fails fast: when the run is over parse() has
\* returned Ok or Err, every token up to Eof has been consumed, and the
\* Result is Err exactly when an error was recorded (the list is then not
\* empty).
C7_TopLevelNeverFailsFast ==
    Over => /\ outcome \in {"ok", "err"}
            /\ Lex(lexer).token.kind = "Eof"
            /\ (outcome = "err" => ret.error.items # <<>>)

DollarAt(col) == ASTError("UnexpectedToken", Tok("DollarSign", Position(col, 1)))

\* C8: parsing `foo($, $)` reports one ASTError::Errors aggregate that
\* holds exactly the two underlying errors, in order.
C8_ErrorsAggregate ==
    (program = SrcCallErrors /\ Over)
        => /\ outcome = "err"
           /\ ret.error = Vec(<<ASTErrors(<<DollarAt(5), DollarAt(8)>>)>>)

BlockOf(name) == Node("Block", "", <<Leaf("Identifier", name)>>)

\* C9: parsing `if x { y } else { z }` returns Ok with the single node
\* If(Identifier("x"), Block([Identifier("y")]), Block([Identifier("z")])).
C9_IfElse ==
    (program = SrcIfElse /\ Over)
        => /\ outcome = "ok"
           /\ ret.value = Vec(<<Node("If", "", <<Leaf("Identifier", "x"),
                                                 BlockOf("y"), BlockOf("z")>>)>>)

\* Every FunctionCall under n holds Arguments and every FunctionDefinition
\* under n holds Parameters.
RECURSIVE WellClassified(_)
WellClassified(n) ==
    /\ n.kind = "FunctionCall" => n.kids[2].kind = "Arguments"
    /\ n.kind = "FunctionDefinition" => n.kids[2].kind = "Parameters"
    /\ \A i \in 1..Len(n.kids) : WellClassified(n.kids[i])

FooCall ==
    Node("FunctionCall", "",
         <<Leaf("Identifier", "foo"), Node("Arguments", "", <<>>)>>)

FooDefinition ==
    Node("FunctionDefinition", "",
         <<Leaf("Identifier", "foo"), Node("Parameters", "", <<>>),
           Node("Return", "", None), Node("Block", "", <<>>)>>)

\* C10: the list after an identifier is classified by the token after its
\* closing `)` alone: parse_set hands parse_function Parameters exactly when
\* that token is `{` or `:`, and Arguments otherwise; the list parse_function
\* hands parse_node is the one Arguments node (a FunctionCall) or starts with
\* the Parameters node of three (a FunctionDefinition); every tree parse()
\* returns is classified so; `foo()` yields FunctionCall(Identifier("foo"),
\* Arguments([])) and `foo() { }` yields FunctionDefinition(
\* Identifier("foo"), Parameters([]), Return(None), Block([])).
C10_CallOrDefinition ==
    /\ (Running("parse_function") /\ Top(stack).pc = "set" /\ ret.kind = "Ok")
          => /\ ret.value.kind \in {"Parameters", "Arguments"}
             /\ ret.value.kind = "Parameters"
                   <=> Peek(lexer).token.kind \in {"LeftBrace", "Colon"}
    /\ (Running("parse_node") /\ Top(stack).pc = "function" /\ ret.kind = "Ok")
          => \/ /\ Len(ret.value.items) = 1
                /\ ret.value.items[1].kind = "Arguments"
             \/ /\ Len(ret.value.items) = 3
                /\ ret.value.items[1].kind = "Parameters"
    /\ outcome = "ok"
          => \A i \in 1..Len(ret.value.items) : WellClassified(ret.value.items[i])
    /\ (program = SrcCall /\ Over) => ret = Ok(Vec(<<FooCall>>))
    /\ (program = SrcDefinition /\ Over) => ret = Ok(Vec(<<FooDefinition>>))

\* C10 witness: parse() has returned a FunctionDefinition whose Parameters
\* are not empty and whose return type is given.
C10_Witness ==
    /\ outcome = "ok"
    /\ Len(ret.value.items) = 1
    /\ ret.value.items[1].kind = "FunctionDefinition"
    /\ ret.value.items[1].kids[2].kids # <<>>
    /\ ret.value.items[1].kids[3].kids # <<>>

Typed(t) == Node("Type", "", Some(Leaf(t, "")))

\* C11: parsing `x: num = 1` returns Ok with the single node
\* VariableDefinition(Identifier("x"), Type(Some(NumberType)),
\* NumberLiteral("1")); `x: bool = 1 + 2` likewise holds Identifier("x"),
\* Type(Some(BooleanType)) and the expression; and whenever parse_variable
\* hands parse_node two nodes after a `:`, the first is a Type holding the
\* type node.
C11_TypedDefinition ==
    /\ (program = SrcDeclare /\ Over)
          => ret = Ok(Vec(<<Node("VariableDefinition", "",
                 <<Leaf("Identifier", "x"), Typed("NumberType"),
                   Leaf("NumberLiteral", "1")>>)>>))
    /\ (program = SrcDeclareSum /\ Over)
          => /\ outcome = "ok"
             /\ Len(ret.value.items) = 1
             /\ ret.value.items[1].kind = "VariableDefinition"
             /\ ret.value.items[1].kids[1] = Leaf("Identifier", "x")
             /\ ret.value.items[1].kids[2] = Typed("BooleanType")
             /\ ret.value.items[1].kids[3].kind = "BinaryExpression"
    /\ (Running("parse_node") /\ Top(stack).pc = "declare" /\ ret.kind = "Ok"
            /\ Len(ret.value.items) = 2)
          => /\ ret.value.items[1].kind = "Type"
             /\ Len(ret.value.items[1].kids) = 1

C11_Witness ==
    /\ program = SrcDeclare
    /\ outcome = "ok"
    /\ ret.value.items[1].kind = "VariableDefinition"

\* C12: parsing `x: num` returns Ok with the single node
\* VariableDeclaration(Identifier("x"), NumberType), the second child being
\* the type node itself.
C12_BareDeclaration ==
    (program = SrcDeclareOnly /\ Over)
        => ret = Ok(Vec(<<Node("VariableDeclaration", "",
               <<Leaf("Identifier", "x"), Leaf("NumberType", "")>>)>>))

\* What is left of a block comment's body b after its first `*/`; nothing
\* when the comment is not terminated.
RECURSIVE AfterBlockComment(_)
AfterBlockComment(b) ==
    IF Len(b) < 2 THEN <<>>
    ELSE IF b[1] = "*" /\ b[2] = "/" THEN SubSeq(b, 3, Len(b))
    ELSE AfterBlockComment(Tail(b))

\* What is left of a line comment's text after it, the newline included.
RECURSIVE AfterLineComment(_)
AfterLineComment(s) ==
    IF s = <<>> \/ Head(s) = "\n" THEN s ELSE AfterLineComment(Tail(s))

\* s consists only of whitespace, `//` line comments and `/* */` block
\* comments, terminated or not.
RECURSIVE Blank(_)
Blank(s) ==
    IF s = <<>> THEN TRUE
    ELSE IF IsWhitespace(Head(s)) THEN Blank(Tail(s))
    ELSE IF Len(s) >= 2 /\ s[1] = "/" /\ s[2] = "/"
    THEN Blank(AfterLineComment(SubSeq(s, 3, Len(s))))
    ELSE IF Len(s) >= 2 /\ s[1] = "/" /\ s[2] = "*"
    THEN Blank(AfterBlockComment(SubSeq(s, 3, Len(s))))
    ELSE FALSE

\* C13: for a program of whitespace and comments only, the first token the
\* lexer returns is Eof and parse() returns Ok with an empty list.
C13_BlankIsEmpty ==
    (outcome # "new" /\ Blank(program))
        => /\ Lex(Tracked(LexerNew(program))).token.kind = "Eof"
           /\ Over => ret = Ok(Vec(<<>>))

\* s is one terminated string literal: a quote, a body without a quote, a
\* quote.
IsStringLiteral(s) ==
    /\ Len(s) >= 2
    /\ s[1] = "\"" /\ s[Len(s)] = "\""
    /\ \A i \in 2..(Len(s) - 1) : s[i] # "\""

\* s is one run of digits.
IsDigitRun(s) == s # <<>> /\ \A i \in 1..Len(s) : IsNumeric(s[i])

OneNode(kind, text) == Ok(Vec(<<Leaf(kind, text)>>))

\* C14: a program of one literal token parses to Ok with exactly one node:
\* "s" to StringLiteral(s) without the quotes, a digit run d to
\* NumberLiteral(d), `true` to BooleanLiteral(true) and `false` to
\* BooleanLiteral(false).
C14_SingleLiteral ==
    (outcome # "new" /\ Over)
        => /\ IsStringLiteral(program)
                => ret = OneNode("StringLiteral", Str(SubSeq(program, 2, Len(program) - 1)))
           /\ IsDigitRun(program) => ret = OneNode("NumberLiteral", Str(program))
           /\ program = <<"t", "r", "u", "e">> => ret = OneNode("BooleanLiteral", "true")
           /\ program = <<"f", "a", "l", "s", "e">> => ret = OneNode("BooleanLiteral", "false")

\* s opens a string with a quote and holds no later quote.
Unterminated(s) ==
    /\ s # <<>>
    /\ s[1] = "\""
    /\ \A i \in 2..Len(s) : s[i] # "\""

\* C15: a program that opens a string and never closes it lexes to one
\* Unknown token holding everything after the quote, then Eof, and parse()
\* returns Err with exactly one error, UnknownToken of that token.
C15_UnterminatedString ==
    (outcome # "new" /\ Unterminated(program))
        => \A first \in {Lex(Tracked(LexerNew(program)))} :
              /\ first.token.kind = "Unknown"
              /\ first.token.text = Str(Tail(program))
              /\ Lex(first.lexer).token.kind = "Eof"
              /\ Over => ret = Err(Vec(<<ASTError("UnknownToken", first.token)>>))

C15_Witness ==
    /\ Unterminated(program)
    /\ Len(program) > 1
    /\ outcome = "err"
    /\ Len(ret.error.items) = 1

\* The identifier a definition or a call node names.
NameOf(n) == n.kids[1].text

\* The kinds of the nodes of a list, in order.
Kinds(nodes) == [i \in 1..Len(nodes) |-> nodes[i].kind]

\* The number of top-level statements of the well-formed programs among the
\* samples.
Statements(p) ==
    CASE p = SrcTest -> 2
      [] p \in {SrcIn, SrcDeclare, SrcDeclareSum, SrcDefinition, SrcCall} -> 1
      [] OTHER -> 0

\* C16: a well-formed program of function definitions, calls without
\* arguments and variable definitions parses to Ok with one node per
\* statement, in order; the program of test_parser gives exactly the two
\* FunctionDefinitions `hi` and `main`, the block of `hi` holding its one
\* call and the block of `main` its six statements.
C16_WellFormedPrograms ==
    (Statements(program) > 0 /\ Over)
        => /\ outcome = "ok"
           /\ Len(ret.value.items) = Statements(program)
           /\ program = SrcTest
                => /\ Kinds(ret.value.items) = <<"FunctionDefinition", "FunctionDefinition">>
                   /\ NameOf(ret.value.items[1]) = "hi"
                   /\ NameOf(ret.value.items[2]) = "main"
                   /\ Kinds(ret.value.items[1].kids[4].kids) = <<"FunctionCall">>
                   /\ Kinds(ret.value.items[2].kids[4].kids)
                         = <<"FunctionDefinition", "FunctionCall", "VariableDefinition",
                             "VariableDefinition", "VariableDefinition", "VariableDefinition">>

\* C18: an `if` without `else` consumes nothing beyond the `}` of its
\* block: parsing `if x { y }` followed by `z` returns Ok with two nodes,
\* the If and then Identifier("z"), and `z` is not stored in the If.
C18_ElseIsOptional ==
    (program = SrcIfThen /\ Over)
        => /\ outcome = "ok"
           /\ Len(ret.value.items) = 2
           /\ ret.value.items[1].kind = "If"
           /\ \A i \in 1..Len(ret.value.items[1].kids) :
                 ret.value.items[1].kids[i] # Leaf("Identifier", "z")
           /\ ret.value.items[2] = Leaf("Identifier", "z")

OpensBlockComment(s) == Len(s) >= 2 /\ s[1] = "/" /\ s[2] = "*"

\* The first token of what follows the first `*/` of a source that opens
\* with `/*`.
AfterFirstCloser(s) ==
    Lex(Tracked(LexerNew(AfterBlockComment(SubSeq(s, 3, Len(s)))))).token

\* C19: a block comment ends at the first `*/` after its `/*`: for a source
\* that opens with `/*`, the first token lex() returns is the first token
\* of what follows that `*/` (Eof when there is none), also for `/**/`, for
\* a body ending in `*`, and for `/*/`, which is not a complete comment.
C19_BlockCommentEnd ==
    [][(/\ outcome = "running"
        /\ OpensBlockComment(program)
        /\ lexer = LexerNew(program)
        /\ token' # token)
          => \A expected \in {AfterFirstCloser(program)} :
                /\ token'.kind = expected.kind
                /\ token'.text = expected.text]_vars

\* The longest prefix of s made of alphanumeric characters.
RECURSIVE AlphanumericRun(_)
AlphanumericRun(s) ==
    IF s = <<>> \/ ~IsAlphanumeric(Head(s)) THEN <<>>
    ELSE <<Head(s)>> \o AlphanumericRun(Tail(s))

\* C20: a lexeme that starts with a digit is scanned over alphanumeric
\* characters by maximal munch and returned as one Number token: the first
\* lex() of such a source returns Number with the whole alphanumeric run as
\* its text, so `12abc` gives Number("12abc") and then Eof.
C20_NumberMaximalMunch ==
    [][(/\ outcome = "running"
        /\ program # <<>>
        /\ Head(program) \in AsciiDigits
        /\ lexer = LexerNew(program)
        /\ token' # token)
          => /\ token'.kind = "Number"
             /\ token'.text = Str(AlphanumericRun(program))
             /\ program = <<"1", "2", "a", "b", "c">>
                   => Lex(Tracked(lexer')).token.kind = "Eof"]_vars

\* The second character the claim designates for an operator start.
DesignatedSecond(c) == IF c \in {"&", "|"} THEN c ELSE "="

\* lex() is about to read an operator: the source starts with an operator
\* start character that does not open a comment.
AtOperator ==
    /\ outcome = "running"
    /\ lexer.source # <<>>
    /\ Head(lexer.source) \in OperatorStarts
    /\ ~(/\ Head(lexer.source) = "/"
         /\ Len(lexer.source) >= 2
         /\ lexer.source[2] \in {"/", "*"})

\* C21: at an operator start character lex() returns the two-character
\* token and consumes exactly two characters if and only if the very next
\* character is the designated second one; otherwise it returns the
\* one-character token and consumes exactly one character; a lone `|` gives
\* Unknown("|"); the same holds when the operator ends the input.  The
\* token carries the position of the operator's first character.
C21_OperatorLookahead ==
    [][(AtOperator /\ lexer' # lexer)
          => \A c \in {Head(lexer.source)}, rest \in {Tail(lexer.source)} :
                /\ token'.position = lexer.position
                /\ IF rest # <<>> /\ Head(rest) = DesignatedSecond(c)
                   THEN /\ token'.kind = OperatorArm(c).two
                        /\ lexer'.source = Tail(rest)
                   ELSE /\ token'.kind = OperatorArm(c).one
                        /\ lexer'.source = rest
                /\ token'.kind \in {"PlusEqual", "MinusEqual", "AsteriskEqual",
                                    "SlashEqual", "PercentEqual", "CaretEqual", "Equals",
                                    "NotEqual", "GreaterThanOrEqual", "LessThanOrEqual",
                                    "And", "Or"}
                      <=> (rest # <<>> /\ Head(rest) = DesignatedSecond(c))
                /\ (c = "|" /\ token'.kind # "Or")
                      => token' = Token("Unknown", lexer.position, "|")]_vars

\* lex() has returned the one-character token of an operator that ends the
\* input, after having returned a two-character token before.
C21_Witness ==
    /\ outcome = "running"
    /\ program = <<"=", "=", "=">>
    /\ lexer.source = <<>>
    /\ token.kind = "Equal"

\* Programs that end in the middle of a production: `x =`, `x :`, `x (`,
\* `if x` and `{`.
MidProduction ==
    { Join(<<(<<"x">>), (<<"=">>)>>), Join(<<(<<"x">>), (<<":">>)>>),
      Join(<<(<<"x">>), (<<"(">>)>>), Join(<<(<<"i", "f">>), (<<"x">>)>>),
      <<"{">> }

\* C22: when the input ends in the middle of a production, parse() returns
\* Err and reports an ASTError::EarlyEOF that carries the Eof token.
C22_EarlyEofReported ==
    (program \in MidProduction /\ Over)
        => /\ outcome = "err"
           /\ \E i \in 1..Len(ret.error.items) :
                 /\ ret.error.items[i].kind = "EarlyEOF"
                 /\ ret.error.items[i].token.kind = "Eof"

\* x = $
SrcAssignDollar == Join(<<(<<"x">>), (<<"=">>), (<<"$">>)>>)

\* C23: every UnknownToken or UnexpectedToken parse() returns carries the
\* token at which the fault was detected, also inside a construct that
\* starts with an identifier: for `x = $` the one error reported carries
\* the `$` at column 5, not the leading identifier.
C23_ErrorCarriesOffender ==
    (program = SrcAssignDollar /\ Over)
        => /\ outcome = "err"
           /\ Len(ret.error.items) = 1
           /\ ret.error.items[1].kind \in {"UnknownToken", "UnexpectedToken"}
           /\ ret.error.items[1].token = Tok("DollarSign", Position(5, 1))

\* BinaryExpression(...BinaryExpression(1, op1, 2)..., op(n-1), n)
RECURSIVE FoldLeft(_, _, _)
FoldLeft(left, ops, i) ==
    IF ops = <<>> THEN left
    ELSE FoldLeft(Node("BinaryExpression", "",
                       <<left, Leaf("Operator", Head(ops).text),
                         Leaf("NumberLiteral", Str(<<Digit(i)>>))>>),
                  Tail(ops), i + 1)

Folded(ops) == FoldLeft(Leaf("NumberLiteral", "1"), ops, 2)

PlusTimes == <<Spelled(<<"+">>, "+"), Spelled(<<"*">>, "*")>>

C25_GroupKeepsEveryElement ==
    (program = SrcArrayOfThree /\ Over)
        => ret = Ok(Vec(<<Node("VariableDefinition", "",
               <<Leaf("Identifier", "x"), Node("Type", "", None),
                 Node("Array", "",
                      <<Leaf("NumberLiteral", "1"), Leaf("NumberLiteral", "2"),
                        Leaf("NumberLiteral", "3")>>)>>)>>))

\* VariableDefinition(Identifier(x), Type(None), value)
DefinitionOfX(value) ==
    Ok(Vec(<<Node("VariableDefinition", "",
                  <<Leaf("Identifier", "x"), Node("Type", "", None), value>>)>>))

\* BinaryExpression(left, Operator(op), right)
Binary(left, op, right) ==
    Node("BinaryExpression", "", <<left, Leaf("Operator", op), right>>)

\* C26: `x op= rhs`, op one of + - * / % ^, gives VariableDefinition(
\* Identifier(x), Type(None), BinaryExpression(Identifier(x), Operator(op),
\* rhs)) with rhs the whole expression that follows (`x += 1 * 2` holds
\* 1 * 2 as rhs); for the single operand 1 that is the tree `x = x op 1`
\* gives; and `x = 1` gives VariableDefinition(Identifier(x), Type(None),
\* NumberLiteral(1)).
C26_CompoundAssignment ==
    Over
        => /\ \A op \in CompoundOperators :
                 program \in {Compound(op), Spelt(op)}
                    => ret = DefinitionOfX(Binary(Leaf("Identifier", "x"), op,
                                                  Leaf("NumberLiteral", "1")))
           /\ program = SrcCompoundChain
                 => ret = DefinitionOfX(Binary(Leaf("Identifier", "x"), "+",
                              Binary(Leaf("NumberLiteral", "1"), "*",
                                     Leaf("NumberLiteral", "2"))))
           /\ program = SrcAssign => ret = DefinitionOfX(Leaf("NumberLiteral", "1"))

C26_Witness ==
    /\ program = Compound("^")
    /\ outcome = "ok"
    /\ ret.value.items[1].kids[3].kind = "BinaryExpression"

\* The places before the n-th character of s that hold a newline.
NewlinesBefore(s, n) == {i \in 1..(n - 1) : s[i] = "\n"}

\* The greatest element of a set of naturals, 0 for the empty set.
Last(S) == IF S = {} THEN 0 ELSE CHOOSE i \in S : \A j \in S : j <= i

\* The 1-based position of the n-th character of s (of the place after
\* the last one when n = Len(s) + 1): row counts the newlines before it,
\* col the characters since the last of them.
PositionAt(s, n) ==
    Position(n - Last(NewlinesBefore(s, n)), 1 + Cardinality(NewlinesBefore(s, n)))

\* C27: every token lex() returns carries the 1-based position of the
\* first character of its lexeme, and Eof the position just after the last
\* character of the input: also String and the Unknown of an unterminated
\* string (the opening quote), identifiers and numbers, and an Eof reached
\* through an unterminated block comment.
C27_TokenPosition ==
    [][(outcome = "running" /\ (token' # token \/ lexer' # lexer))
          => /\ (/\ lexer.source # <<>>
                 /\ ~IsWhitespace(Head(lexer.source))
                 /\ ~(Len(lexer.source) >= 2 /\ lexer.source[1] = "/"
                         /\ lexer.source[2] \in {"/", "*"}))
                   => token'.position
                         = PositionAt(program, Len(program) - Len(lexer.source) + 1)
             /\ token'.kind = "Eof"
                   => token'.position = PositionAt(program, Len(program) + 1)]_vars

\* Every tree of v, a node, a list of nodes or nothing, is well classified.
Classified(v) ==
    IF v.kind = "Nil" THEN TRUE
    ELSE IF v.kind = "Vec" THEN \A i \in 1..Len(v.items) : WellClassified(v.items[i])
    ELSE WellClassified(v)

\* C28: in every tree the parser builds, those a call in progress holds
\* and those a call returns, a FunctionCall holds Arguments and a
\* FunctionDefinition holds Parameters as second child; the list
\* parse_function returns has length 1 exactly when its first node is
\* Arguments and length 3 exactly when it is Parameters.
C28_ListMatchesNode ==
    /\ ret.kind = "Ok" => Classified(ret.value)
    /\ \A i \in 1..Len(stack) :
          /\ Classified(stack[i].a)
          /\ Classified(stack[i].b)
          /\ \A k \in 1..Len(stack[i].nodes) : WellClassified(stack[i].nodes[k])
    /\ (Running("parse_node") /\ Top(stack).pc = "function" /\ ret.kind = "Ok")
          => /\ Len(ret.value.items) \in {1, 3}
             /\ Len(ret.value.items) = 1 <=> ret.value.items[1].kind = "Arguments"
             /\ Len(ret.value.items) = 3 <=> ret.value.items[1].kind = "Parameters"

\* parse() has returned the tree of the program of test_parser, which holds
\* calls and definitions at several depths.
C28_Witness ==
    /\ program = SrcTest
    /\ outcome = "ok"
    /\ ret.value.items[2].kids[4].kids[1].kind = "FunctionDefinition"
    /\ ret.value.items[2].kids[4].kids[2].kind = "FunctionCall"

(***************************************************************************)
(* Claims on main                                                          *)
(***************************************************************************)

\* C17: started with --run other than "repl", main reads and evaluates the
\* script at the path --run gives; started with --run repl, it starts the
\* REPL in the cursor mode --mode names.
C17_RunSelectsScript ==
    started # Nil
        => IF opt.run = "repl"
           THEN /\ started.kind = "repl"
                /\ opt.mode = "vi" => started.mode = "Vi"
                /\ opt.mode = "emacs" => started.mode = "Emacs"
                /\ opt.mode = "normal" => started.mode = "Normal"
           ELSE opt.run \in DOMAIN files => started = Eval(files[opt.run])

(***************************************************************************)
(* Claims on repl                                                          *)
(***************************************************************************)

\* C29: in every cursor mode an Enter key is followed by the evaluation of
\* exactly the characters typed since the last evaluation, the buffer being
\* cleared, and Ctrl-D ends the loop from any point of the input.
C29_EnterEvaluates ==
    [][(repl_at = "read" /\ repl_at' # "failed" /\ event' # event)
          => /\ event'.code = "Enter"
                   => /\ evaluated' = Append(evaluated, line.buffer)
                      /\ line'.buffer = <<>>
             /\ (event'.code = "Char" /\ event'.c = "d" /\ event'.control)
                   => repl_at' = "returned"]_vars

\* C30: raw mode is enabled whenever repl waits in read(), for the first
\* line and for every later one, and disabled when repl has returned.
C30_RawModeWhileReading ==
    /\ repl_at = "read" => raw_mode
    /\ repl_at \in {"returned", "failed"} => ~raw_mode

=============================================================================
